---- MODULE Spec2Model ----
(***************************************************************************)
(* Model of bevy_hierarchy's Children component                            *)
(* (crates/bevy_hierarchy/src/components/children.rs): the mandatory       *)
(* sequence `all`, the optional sequence `active`, and every method that   *)
(* reads or mutates them.                                                  *)
(***************************************************************************)
EXTENDS Integers, Sequences, FiniteSets, TLC

\* ------------------------------------------------------------------ bounds
NumEntities == 2
MaxLen == 2

Entities == 1..NumEntities

RECURSIVE SeqsOfLen(_)
SeqsOfLen(n) ==
    IF n = 0 THEN {<<>>}
    ELSE {Append(s, e) : s \in SeqsOfLen(n - 1), e \in Entities}

EntitySeqs == UNION {SeqsOfLen(n) : n \in 0..MaxLen}

\* ------------------------------------------------------------ the struct
\* Option<SmallVec<[Entity; 8]>>: None, or Some(v)
None == [some |-> FALSE, v |-> <<>>]
Some(s) == [some |-> TRUE, v |-> s]

\* struct Children { all, active }
Children(a, act) == [all |-> a, active |-> act]

VARIABLES
    all,      \* Children::all
    active,   \* Children::active
    other,    \* the caller's scratch buffer, alive while it calls swap_active
    last,     \* the call that has just run (arguments, result, the state it started
              \* from), or "idle" once the caller has moved on
    acc,      \* what has been appended since the last set_zero_active, while nothing else ran
    zeroed    \* set_zero_active ran and neither add_active nor set_active has run since

vars == <<all, active, other, last, acc, zeroed>>

Cur == Children(all, active)

\* ------------------------------------------------------ slice primitives
\* slice::swap(a, b) on a 0-based pair of valid positions
SliceSwap(s, a, b) ==
    [k \in 1..Len(s) |-> IF k = a + 1 THEN s[b + 1]
                         ELSE IF k = b + 1 THEN s[a + 1]
                         ELSE s[k]]

\* iter_mut().for_each(|e| *e = f(*e)): the rewritten slice and the entities
\* the closure was called on, in call order
RECURSIVE ForEachMut(_, _)
ForEachMut(s, f) ==
    IF s = <<>> THEN [out |-> <<>>, calls |-> <<>>]
    ELSE LET r == ForEachMut(Tail(s), f)
         IN  [out |-> <<f[Head(s)]>> \o r.out, calls |-> <<Head(s)>> \o r.calls]

\* ----------------------------------------------------------- orderings
\* The key-extraction closures a caller passes to the sort family; a
\* comparator closure is |a, b| key(a).cmp(&key(b)) for one of them.
Keys == {"asc", "desc", "pair"}

KeyOf(k, e) ==
    CASE k = "asc" -> e
      [] k = "desc" -> 0 - e
      [] OTHER -> (e + 1) \div 2

\* core::cmp::Ordering of the comparator built on key k
compare(k, a, b) ==
    IF KeyOf(k, a) < KeyOf(k, b) THEN "Less"
    ELSE IF KeyOf(k, a) > KeyOf(k, b) THEN "Greater"
    ELSE "Equal"

\* stable insertion of x behind every element that is not Greater than it
RECURSIVE InsertBy(_, _, _)
InsertBy(s, x, k) ==
    IF s = <<>> THEN <<x>>
    ELSE IF compare(k, Head(s), x) = "Greater" THEN <<x>> \o s
    ELSE <<Head(s)>> \o InsertBy(Tail(s), x, k)

\* slice::sort_by: a stable sort, elements taken left to right
RECURSIVE SliceSortBy(_, _)
SliceSortBy(s, k) ==
    IF s = <<>> THEN <<>>
    ELSE InsertBy(SliceSortBy(SubSeq(s, 1, Len(s) - 1), k), s[Len(s)], k)

\* slice::sort_by_key(f) is sort_by(|a, b| f(a).cmp(&f(b)))
SliceSortByKey(s, k) == SliceSortBy(s, k)

\* slice::sort_by_cached_key: sort the (key, index) pairs, then permute
PairLess(s, k, x, y) ==
    \/ KeyOf(k, s[x]) < KeyOf(k, s[y])
    \/ KeyOf(k, s[x]) = KeyOf(k, s[y]) /\ x < y

SliceSortByCachedKey(s, k) ==
    LET n == Len(s)
        rank(x) == 1 + Cardinality({y \in 1..n : PairLess(s, k, y, x)})
    IN  [r \in 1..n |-> s[CHOOSE x \in 1..n : rank(x) = r]]

IsSortedBy(s, k) ==
    \A x, y \in 1..Len(s) : x < y => compare(k, s[x], s[y]) # "Greater"

Rearrangements(s) ==
    {[x \in 1..Len(s) |-> s[p[x]]] : p \in Permutations(1..Len(s))}

\* slice::sort_unstable_by / sort_unstable_by_key: any ordered rearrangement
SliceSortUnstableBy(s, k) == {t \in Rearrangements(s) : IsSortedBy(t, k)}

SliceSortUnstableByKey(s, k) == SliceSortUnstableBy(s, k)

\* ------------------------------------------------------------- methods
\* faulty variant: rewrites `all` as well when `active` is present
visit_entities_mut_Both(c, f) ==
    IF c.active.some
    THEN LET r == ForEachMut(c.active.v, f)
         IN  [c |-> Children(ForEachMut(c.all, f).out, Some(r.out)), calls |-> r.calls]
    ELSE LET r == ForEachMut(c.all, f)
         IN  [c |-> Children(r.out, c.active), calls |-> r.calls]

\* impl VisitEntitiesMut for Children; f is the closure |e| *e = f(*e) that
\* MapEntities::map_entities passes. Result: the container and the calls made.
visit_entities_mut(c, f) ==
    IF c.active.some
    THEN LET r == ForEachMut(c.active.v, f)
         IN  [c |-> Children(c.all, Some(r.out)), calls |-> r.calls]
    ELSE LET r == ForEachMut(c.all, f)
         IN  [c |-> Children(r.out, c.active), calls |-> r.calls]

from_world == Children(<<>>, None)

from_entities(entities) == Children(entities, None)

\* faulty variant: a successful swap keeps the active view
swap_KeepActive(c, a_index, b_index) ==
    IF a_index < Len(c.all) /\ b_index < Len(c.all)
    THEN [c |-> Children(SliceSwap(c.all, a_index, b_index), c.active), panicked |-> FALSE]
    ELSE [c |-> c, panicked |-> TRUE]

\* faulty variant: `active` is dropped before the bounds check
swap_ClearBeforeCheck(c, a_index, b_index) ==
    IF a_index < Len(c.all) /\ b_index < Len(c.all)
    THEN [c |-> Children(SliceSwap(c.all, a_index, b_index), None), panicked |-> FALSE]
    ELSE [c |-> Children(c.all, None), panicked |-> TRUE]

\* Children::swap: the bounds check of slice::swap panics before anything is
\* written; otherwise the two slots of `all` are exchanged and `active` dropped
swap(c, a_index, b_index) ==
    IF a_index < Len(c.all) /\ b_index < Len(c.all)
    THEN [c |-> Children(SliceSwap(c.all, a_index, b_index), None), panicked |-> FALSE]
    ELSE [c |-> c, panicked |-> TRUE]

\* faulty variant: creates `active` when missing but does not clear it
set_zero_active_NoClear(c) ==
    IF ~c.active.some THEN Children(c.all, Some(<<>>)) ELSE c

set_zero_active(c) ==
    LET c1 == IF ~c.active.some THEN Children(c.all, Some(<<>>)) ELSE c
    IN  Children(c1.all, Some(<<>>))

\* faulty variant: unwrap_or(true), an absent `active` counts as zero active
is_zero_active_AbsentIsZero(c) ==
    IF c.active.some THEN Len(c.active.v) = 0 ELSE TRUE

\* self.active.as_ref().map(|a| a.is_empty()).unwrap_or_default()
is_zero_active(c) ==
    IF c.active.some THEN Len(c.active.v) = 0 ELSE FALSE

\* faulty variant: a missing `active` is seeded from `all`
add_active_FromAll(c, entity) ==
    IF c.active.some
    THEN Children(c.all, Some(Append(c.active.v, entity)))
    ELSE Children(c.all, Some(Append(c.all, entity)))

add_active(c, entity) ==
    IF c.active.some
    THEN Children(c.all, Some(Append(c.active.v, entity)))
    ELSE Children(c.all, Some(<<entity>>))

\* faulty variant: a missing `active` is replaced, the buffer is not emptied
swap_active_NoCreate(c, buf) ==
    IF c.active.some
    THEN [c |-> Children(c.all, Some(buf)), other |-> c.active.v]
    ELSE [c |-> Children(c.all, Some(buf)), other |-> buf]

\* std::mem::swap(active, other) after `active` has been created if missing
swap_active(c, buf) ==
    LET c1 == IF ~c.active.some THEN Children(c.all, Some(<<>>)) ELSE c
    IN  [c |-> Children(c1.all, Some(buf)), other |-> c1.active.v]

set_active(c, iter) ==
    LET c1 == IF ~c.active.some THEN Children(c.all, Some(<<>>)) ELSE c
        cleared == Children(c1.all, Some(<<>>))
    IN  Children(cleared.all, Some(cleared.active.v \o iter))

\* faulty variant: sorts only the sequence the default view shows
sort_by_ViewOnly(c, k) ==
    IF c.active.some
    THEN Children(c.all, Some(SliceSortBy(c.active.v, k)))
    ELSE Children(SliceSortBy(c.all, k), c.active)

sort_by(c, k) ==
    Children(SliceSortBy(c.all, k),
             IF c.active.some THEN Some(SliceSortBy(c.active.v, k)) ELSE c.active)

sort_by_key(c, k) ==
    Children(SliceSortByKey(c.all, k),
             IF c.active.some THEN Some(SliceSortByKey(c.active.v, k)) ELSE c.active)

sort_by_cached_key(c, k) ==
    Children(SliceSortByCachedKey(c.all, k),
             IF c.active.some THEN Some(SliceSortByCachedKey(c.active.v, k)) ELSE c.active)

\* the unstable sorts: every container an unstable sort may leave behind
sort_unstable_by(c, k) ==
    {Children(a, act) :
        a \in SliceSortUnstableBy(c.all, k),
        act \in IF c.active.some
                THEN {Some(t) : t \in SliceSortUnstableBy(c.active.v, k)}
                ELSE {c.active}}

sort_unstable_by_key(c, k) ==
    {Children(a, act) :
        a \in SliceSortUnstableByKey(c.all, k),
        act \in IF c.active.some
                THEN {Some(t) : t \in SliceSortUnstableByKey(c.active.v, k)}
                ELSE {c.active}}

\* faulty variant: the view ignores `active`
deref_AllOnly(c) == c.all

\* impl Deref for Children
deref(c) == IF c.active.some THEN c.active.v ELSE c.all

\* impl IntoIterator for &Children: the items the iterator yields
into_iter(c) == IF c.active.some THEN c.active.v ELSE c.all

\* ------------------------------------------------------------- callers
\* The remap closures handed to visit_entities_mut: every bijection of the
\* entities, and one closure that collapses them all onto one entity.
Mappers == Permutations(Entities) \cup {[e \in Entities |-> 1]}

Identity == [e \in Entities |-> e]

Snapshot == [all |-> all, active |-> active, other |-> other]

NoSnapshot == [all |-> <<>>, active |-> None, other |-> <<>>]

Blank ==
    [op |-> "idle", i |-> 0, j |-> 0, e |-> 1, items |-> <<>>, key |-> "asc",
     f |-> Identity, ret |-> FALSE, view |-> <<>>, calls |-> <<>>,
     panicked |-> FALSE, pre |-> NoSnapshot, twice |-> FALSE, pre2 |-> NoSnapshot]

\* The record of a call `op` started in the current state; each action fills
\* in the arguments and results it has.
Call(op) == [Blank EXCEPT !.op = op, !.pre = Snapshot, !.pre2 = Snapshot]

Idle == last.op = "idle"

NoAcc == [valid |-> FALSE, v |-> <<>>]

Init ==
    /\ \E entities \in EntitySeqs, ctor \in {"from_world", "from_entities"} :
          LET c == IF ctor = "from_world" THEN from_world ELSE from_entities(entities)
          IN  /\ all = c.all
              /\ active = c.active
              /\ last = [Blank EXCEPT !.op = ctor,
                                      !.items = IF ctor = "from_world" THEN <<>> ELSE entities]
    /\ other = <<>>
    /\ acc = NoAcc
    /\ zeroed = FALSE

\* The caller is done with the call it made: its scratch buffer goes out of scope.
Return ==
    /\ ~Idle
    /\ last' = Blank
    /\ other' = <<>>
    /\ UNCHANGED <<all, active, acc, zeroed>>

VisitEntitiesMut ==
    \E f \in Mappers :
        LET r == visit_entities_mut(Cur, f)
        IN  /\ Idle
            /\ all' = r.c.all
            /\ active' = r.c.active
            /\ last' = [Call("visit_entities_mut") EXCEPT !.f = f, !.calls = r.calls]
            /\ acc' = NoAcc
            /\ UNCHANGED <<other, zeroed>>

\* swap from an idle caller, or once more right after a swap
Swap ==
    \E a_index, b_index \in 0..MaxLen :
        LET r == swap(Cur, a_index, b_index)
            again == /\ last.op = "swap" /\ ~last.panicked /\ ~r.panicked
                     /\ last.i = a_index /\ last.j = b_index
        IN  /\ Idle \/ last.op = "swap"
            /\ all' = r.c.all
            /\ active' = r.c.active
            /\ last' = [Call("swap") EXCEPT !.i = a_index, !.j = b_index,
                                           !.panicked = r.panicked,
                                           !.twice = again,
                                           !.pre2 = IF again THEN last.pre ELSE Snapshot]
            /\ acc' = NoAcc
            /\ UNCHANGED <<other, zeroed>>

SetZeroActive ==
    LET c == set_zero_active(Cur)
    IN  /\ Idle
        /\ all' = c.all
        /\ active' = c.active
        /\ last' = Call("set_zero_active")
        /\ acc' = [valid |-> TRUE, v |-> <<>>]
        /\ zeroed' = TRUE
        /\ UNCHANGED other

IsZeroActive ==
    /\ Idle
    /\ last' = [Call("is_zero_active") EXCEPT !.ret = is_zero_active(Cur)]
    /\ acc' = NoAcc
    /\ UNCHANGED <<all, active, other, zeroed>>

AddActive ==
    \E entity \in Entities :
        /\ Idle
        /\ Len(active.v) < MaxLen
        /\ LET c == add_active(Cur, entity)
           IN  /\ all' = c.all
               /\ active' = c.active
        /\ last' = [Call("add_active") EXCEPT !.e = entity]
        /\ acc' = IF acc.valid THEN [acc EXCEPT !.v = Append(@, entity)] ELSE NoAcc
        /\ zeroed' = FALSE
        /\ UNCHANGED other

\* swap_active with a buffer the caller has just filled, or once more with the
\* buffer the previous swap_active handed back
SwapActive ==
    \E buf \in IF Idle THEN EntitySeqs ELSE {other} :
        LET r == swap_active(Cur, buf)
            again == last.op = "swap_active"
        IN  /\ Idle \/ last.op = "swap_active"
            /\ all' = r.c.all
            /\ active' = r.c.active
            /\ other' = r.other
            /\ last' = [Call("swap_active") EXCEPT
                            !.items = buf,
                            !.pre = [all |-> all, active |-> active, other |-> buf],
                            !.twice = again,
                            !.pre2 = IF again THEN last.pre
                                     ELSE [all |-> all, active |-> active, other |-> buf]]
            /\ acc' = NoAcc
            /\ UNCHANGED zeroed

SetActive ==
    \E iter \in EntitySeqs :
        LET c == set_active(Cur, iter)
        IN  /\ Idle
            /\ all' = c.all
            /\ active' = c.active
            /\ last' = [Call("set_active") EXCEPT !.items = iter]
            /\ acc' = NoAcc
            /\ zeroed' = FALSE
            /\ UNCHANGED other

SortBy ==
    \E k \in Keys :
        LET c == sort_by(Cur, k)
        IN  /\ Idle
            /\ all' = c.all
            /\ active' = c.active
            /\ last' = [Call("sort_by") EXCEPT !.key = k]
            /\ acc' = NoAcc
            /\ UNCHANGED <<other, zeroed>>

SortByKey ==
    \E k \in Keys :
        LET c == sort_by_key(Cur, k)
        IN  /\ Idle
            /\ all' = c.all
            /\ active' = c.active
            /\ last' = [Call("sort_by_key") EXCEPT !.key = k]
            /\ acc' = NoAcc
            /\ UNCHANGED <<other, zeroed>>

SortByCachedKey ==
    \E k \in Keys :
        LET c == sort_by_cached_key(Cur, k)
        IN  /\ Idle
            /\ all' = c.all
            /\ active' = c.active
            /\ last' = [Call("sort_by_cached_key") EXCEPT !.key = k]
            /\ acc' = NoAcc
            /\ UNCHANGED <<other, zeroed>>

SortUnstableBy ==
    \E k \in Keys :
        \E c \in sort_unstable_by(Cur, k) :
            /\ Idle
            /\ all' = c.all
            /\ active' = c.active
            /\ last' = [Call("sort_unstable_by") EXCEPT !.key = k]
            /\ acc' = NoAcc
            /\ UNCHANGED <<other, zeroed>>

SortUnstableByKey ==
    \E k \in Keys :
        \E c \in sort_unstable_by_key(Cur, k) :
            /\ Idle
            /\ all' = c.all
            /\ active' = c.active
            /\ last' = [Call("sort_unstable_by_key") EXCEPT !.key = k]
            /\ acc' = NoAcc
            /\ UNCHANGED <<other, zeroed>>

Deref ==
    /\ Idle
    /\ last' = [Call("deref") EXCEPT !.view = deref(Cur)]
    /\ acc' = NoAcc
    /\ UNCHANGED <<all, active, other, zeroed>>

IntoIter ==
    /\ Idle
    /\ last' = [Call("into_iter") EXCEPT !.view = into_iter(Cur)]
    /\ acc' = NoAcc
    /\ UNCHANGED <<all, active, other, zeroed>>

Next ==
    \/ Return
    \/ VisitEntitiesMut
    \/ Swap
    \/ SetZeroActive
    \/ IsZeroActive
    \/ AddActive
    \/ SwapActive
    \/ SetActive
    \/ SortBy
    \/ SortByKey
    \/ SortByCachedKey
    \/ SortUnstableBy
    \/ SortUnstableByKey
    \/ Deref
    \/ IntoIter

Spec == Init /\ [][Next]_vars

\* ------------------------------------------------------------ properties
MapSeq(s, f) == [x \in 1..Len(s) |-> f[s[x]]]

Count(s, e) == Cardinality({x \in 1..Len(s) : s[x] = e})

IsPermOf(s, t) == Len(s) = Len(t) /\ \A e \in Entities : Count(s, e) = Count(t, e)

SortOps ==
    {"sort_by", "sort_by_key", "sort_by_cached_key", "sort_unstable_by",
     "sort_unstable_by_key"}

\* C1: after map_entities(f) with a bijective f, `all` is f applied elementwise
\* to the `all` of before, in the same order, whether or not `active` is present.
C1_RemapRewritesAll ==
    (last.op = "visit_entities_mut" /\ last.f \in Permutations(Entities))
        => all = MapSeq(last.pre.all, last.f)

\* C2: the Deref slice and the &Children iteration always agree, are `active`
\* when it is present and `all` when it is absent; right after from_entities(S)
\* or from_world, `active` is absent and the view is S (resp. empty).
C2_DefaultView ==
    /\ deref(Cur) = into_iter(Cur)
    /\ deref(Cur) = (IF active.some THEN active.v ELSE all)
    /\ last.op = "deref" => last.view = (IF active.some THEN active.v ELSE all)
    /\ last.op = "into_iter" => last.view = (IF active.some THEN active.v ELSE all)
    /\ last.op = "from_entities" =>
          ~active.some /\ deref(Cur) = last.items /\ into_iter(Cur) = last.items
    /\ last.op = "from_world" =>
          ~active.some /\ deref(Cur) = <<>> /\ into_iter(Cur) = <<>>

C2_Witness ==
    /\ last.op = "deref"
    /\ active.some /\ active.v # all /\ all # <<>>
    /\ last.view = active.v

\* C3: a successful swap leaves `active` absent (the default view is `all`),
\* and the same successful swap made twice in a row restores `all`, while the
\* active view that was set before stays gone.
C3_SwapTwice ==
    (last.op = "swap" /\ ~last.panicked) =>
        /\ ~active.some
        /\ deref(Cur) = all
        /\ last.twice => all = last.pre2.all

C3_Witness ==
    /\ last.op = "swap" /\ last.twice
    /\ last.i # last.j
    /\ all[last.i + 1] # all[last.j + 1]
    /\ last.pre2.active.some /\ last.pre2.active.v # all

\* C4 as stated: is_zero_active() returns true only when set_zero_active() ran
\* and no add_active or set_active has run since.
C4_TrueOnlyAfterSetZero ==
    (last.op = "is_zero_active" /\ last.ret) => zeroed

\* C4 as amended: is_zero_active() returns true exactly when `active` is
\* present and empty: always right after set_zero_active, never right after
\* add_active, after set_active or swap_active exactly when the producer or
\* the buffer was empty, and never while `active` is absent.
C4_TrueIffPresentAndEmpty ==
    /\ last.op = "is_zero_active" =>
          (last.ret <=> (last.pre.active.some /\ last.pre.active.v = <<>>))
    /\ last.op = "set_zero_active" => is_zero_active(Cur)
    /\ last.op = "add_active" => ~is_zero_active(Cur)
    /\ last.op = "set_active" => (is_zero_active(Cur) <=> last.items = <<>>)
    /\ last.op = "swap_active" => (is_zero_active(Cur) <=> last.pre.other = <<>>)
    /\ ~active.some => ~is_zero_active(Cur)

C4_Witness ==
    last.op = "is_zero_active" /\ last.ret /\ ~zeroed

\* C5: after each of the five sorts `all` is ordered by the key and is a
\* rearrangement of what it held; an `active` present before is still present,
\* ordered by the same key and a rearrangement of its own contents; an absent
\* `active` stays absent.
C5_DualSort ==
    last.op \in SortOps =>
        /\ IsSortedBy(all, last.key)
        /\ IsPermOf(all, last.pre.all)
        /\ last.pre.active.some =>
              /\ active.some
              /\ IsSortedBy(active.v, last.key)
              /\ IsPermOf(active.v, last.pre.active.v)
        /\ ~last.pre.active.some => ~active.some

C5_Witness ==
    /\ last.op \in SortOps
    /\ last.pre.active.some
    /\ all # last.pre.all
    /\ active.v # last.pre.active.v

\* C6: set_zero_active followed only by add_active(e1) .. add_active(en)
\* leaves `active` present and equal to <<e1, .., en>>, and so does one
\* set_active producing e1 .. en; the default view is that sequence.
C6_ActiveRoundTrip ==
    /\ acc.valid =>
          active = Some(acc.v) /\ deref(Cur) = acc.v /\ into_iter(Cur) = acc.v
    /\ last.op = "set_active" =>
          active = Some(last.items) /\ deref(Cur) = last.items

C6_Witness ==
    /\ acc.valid /\ last.op = "add_active"
    /\ Len(acc.v) = 2 /\ acc.v[1] = acc.v[2]
    /\ acc.v # all

\* C7: a call fails exactly when it is a swap with an index that is no position
\* of `all`; the failing swap leaves `all` and `active` as they were.
C7_OnlySwapFails ==
    /\ last.panicked <=>
          /\ last.op = "swap"
          /\ last.i >= Len(last.pre.all) \/ last.j >= Len(last.pre.all)
    /\ last.panicked => all = last.pre.all /\ active = last.pre.active

C7_Witness ==
    /\ last.op = "swap" /\ last.panicked
    /\ active.some
    /\ last.i < Len(active.v) /\ last.j < Len(active.v)

\* C8: swap_active leaves `active` present with the buffer's contents, the
\* buffer with the previous `active` (empty if it was absent) and `all` as it
\* was; twice in a row with the same buffer it restores the buffer, and
\* `active` too if that was present, else `active` ends present and empty.
C8_SwapActive ==
    last.op = "swap_active" =>
        /\ active = Some(last.pre.other)
        /\ other = (IF last.pre.active.some THEN last.pre.active.v ELSE <<>>)
        /\ all = last.pre.all
        /\ last.twice =>
              /\ other = last.pre2.other
              /\ all = last.pre2.all
              /\ last.pre2.active.some => active = last.pre2.active
              /\ ~last.pre2.active.some => active = Some(<<>>)

C8_Witness ==
    /\ last.op = "swap_active" /\ last.twice
    /\ ~last.pre2.active.some
    /\ last.pre2.other # <<>>
    /\ active = Some(<<>>)

\* C9: visit_entities_mut(f) calls f once per element, in order, on `active`
\* alone when it is present (`all` untouched) and on `all` when it is absent;
\* lengths and the presence of `active` do not change.
C9_VisitsOneView ==
    last.op = "visit_entities_mut" =>
        /\ last.pre.active.some =>
              /\ active = Some(MapSeq(last.pre.active.v, last.f))
              /\ all = last.pre.all
              /\ last.calls = last.pre.active.v
        /\ ~last.pre.active.some =>
              /\ all = MapSeq(last.pre.all, last.f)
              /\ last.calls = last.pre.all
        /\ active.some = last.pre.active.some
        /\ Len(all) = Len(last.pre.all)
        /\ Len(active.v) = Len(last.pre.active.v)

C9_Witness ==
    /\ last.op = "visit_entities_mut"
    /\ last.pre.active.some
    /\ active.v # last.pre.active.v
    /\ \E x \in 1..Len(all) : last.f[all[x]] # all[x]

\* C10: `active` goes from present to absent only through a successful swap;
\* set_zero_active, add_active, swap_active and set_active leave it present
\* (add_active(e) without an active set makes the default view <<e>>); the
\* sorts and visit_entities_mut leave its presence as it was.
C10_ActivePresence ==
    /\ (last.pre.active.some /\ ~active.some) => (last.op = "swap" /\ ~last.panicked)
    /\ last.op \in {"set_zero_active", "add_active", "swap_active", "set_active"} =>
          active.some
    /\ last.op \in SortOps \cup {"visit_entities_mut"} =>
          active.some = last.pre.active.some
    /\ (last.op = "add_active" /\ ~last.pre.active.some) =>
          deref(Cur) = <<last.e>> /\ all = last.pre.all

C10_Witness ==
    /\ last.op = "add_active"
    /\ ~last.pre.active.some
    /\ Len(all) = MaxLen
    /\ deref(Cur) # all

====
